---- MODULE Spec2Model ----
(***************************************************************************)
(* Slurm cluster health manager: the fleet coordinator                     *)
(* (cluster_health_orchestrator.py) driving the per-node check runner      *)
(* (node_health_check_runner.py) over a bounded worker pool; one CHECKING  *)
(* pass of the runner over its three probes and the bandwidth verdict of   *)
(* the two NCCL probes; the escalation of failed                           *)
(* nodes (ghr_submission_controller.py, ghr_payload_utils.py) and its      *)
(* dedup scan; main() after the pool; wait_for_ssh                         *)
(* (remote_node_utils.py); and a result through its JSON file.             *)
(***************************************************************************)
EXTENDS Integers, Naturals, Sequences, FiniteSets, TLC

\* ---------------------------------------------------------------------
\* Configuration (health_manager_config.py)
\* ---------------------------------------------------------------------
\* NODE_COUNT, MAX_PARALLEL and MAX_REBOOT_COUNT are read from the
\* environment; the values below are one such setting.
NODE_COUNT == 3
MAX_PARALLEL == 2
MAX_REBOOT_COUNT == 1

\* at most MaxFaults deviations from the nominal run occur in one fleet
\* run: a probe failure (a node that has failed every pass so far may go on
\* failing at no further cost), a raised timeout, a metadata lookup
\* failure, a node that does not come back, a node that starts unreachable
\* or with leftover state, remediation disabled in the coordinator's
\* environment
MaxFaults == 2

Nodes == 1..NODE_COUNT

\* get_nodes(): the host list, in submission order
get_nodes == [i \in 1..NODE_COUNT |-> i]

\* ---------------------------------------------------------------------
\* Probe outcomes and their aggregation (runner main, one CHECKING pass)
\* ---------------------------------------------------------------------
GpuOutcomes == {"pass", "fail"}
ProbeOutcomes == {"pass", "fail", "skip"}

\* run_nccl_multi_node_test: the probe contacts every fleet member first;
\* a member that does not answer (ssh fails, int('') raises) or a fleet of
\* fewer than two nodes yields "N/A" (skip); otherwise the measured outcome.
run_nccl_multi_node_test(raw, reachable) ==
    IF NODE_COUNT < 2 THEN "skip"
    ELSE IF \E m \in Nodes : ~reachable[m] THEN "skip"
    ELSE raw

\* overall = all(checks), checks = gpu_ok plus the non-skip probe outcomes
Overall(gpu, nccl, multi) ==
    /\ gpu = "pass"
    /\ nccl # "fail"
    /\ multi # "fail"

\* the value the coordinator's ssh command gives ENABLE_REBOOT_ON_FAILURE
SshEnableReboot(cfg) == TRUE

\* the bound is tested after the increment instead of before it
Remediate_Inclusive(overall, enable, reboot_count, maxr) ==
    (~overall) /\ enable /\ reboot_count <= maxr

\* the decision forgets the outcome of the pass
Remediate_IgnoresOverall(overall, enable, reboot_count, maxr) ==
    enable /\ reboot_count < maxr

\* the runner's remediation decision
Remediate(overall, enable, reboot_count, maxr) ==
    (~overall) /\ enable /\ reboot_count < maxr

\* ---------------------------------------------------------------------
\* The three probes, by what their collaborators did (runner lines 29-241)
\* ---------------------------------------------------------------------
ProbeResult(passed, codes) == [passed |-> passed, codes |-> codes]

\* what the NHC script did: non-zero exit, 120 s timeout, any other
\* exception (script or log missing), or a log that was read: without FAIL or
\* Error and without an NHCdddd token, without FAIL or Error but with such a
\* token, with FAIL and a token, with FAIL and no token
GpuCases == {"exit_nonzero", "timeout", "exception", "log_clean",
             "log_code_nofail", "log_fail_code", "log_fail_nocode"}

\* run_gpu_health_check(): ok and detail["nhc_error_codes"]
run_gpu_health_check(c) ==
    CASE c = "exit_nonzero"    -> ProbeResult("fail", <<>>)
      [] c = "timeout"         -> ProbeResult("fail", <<>>)
      [] c = "exception"       -> ProbeResult("fail", <<>>)
      [] c = "log_clean"       -> ProbeResult("pass", <<>>)
      [] c = "log_code_nofail" -> ProbeResult("pass", <<"NHC2001">>)
      [] c = "log_fail_code"   -> ProbeResult("fail", <<"NHC2001">>)
      [] c = "log_fail_nocode" -> ProbeResult("fail", <<>>)

\* what nvidia-smi and all_reduce_perf did: nvidia-smi raised (missing,
\* 10 s timeout), listed no GPU, listed fewer than 8; the test raised (60 s
\* timeout), its log could not be read, the log has no 4G line with a
\* bandwidth (also the test's non-zero exit), the bandwidth is below the
\* threshold, or it is not
NcclCases == {"smi_exception", "gpus_0", "gpus_lt8", "exec_exception",
              "parse_exception", "no_bandwidth", "low_bw", "ok"}

\* run_nccl_test(): ok (None is "skip") and nccl_error_codes
run_nccl_test(c) ==
    CASE c = "smi_exception"   -> ProbeResult("skip", <<>>)
      [] c = "gpus_0"          -> ProbeResult("pass", <<"NCCL1001">>)
      [] c = "gpus_lt8"        -> ProbeResult("skip", <<"NCCL1002">>)
      [] c = "exec_exception"  -> ProbeResult("fail", <<"NCCL1003">>)
      [] c = "parse_exception" -> ProbeResult("fail", <<"NCCL1004", "NCCL1005">>)
      [] c = "no_bandwidth"    -> ProbeResult("fail", <<"NCCL1005">>)
      [] c = "low_bw"          -> ProbeResult("fail", <<"NCCL1006">>)
      [] c = "ok"              -> ProbeResult("pass", <<>>)

\* what the fleet and mpirun did: fewer than two nodes, a member with fewer
\* than 8 GPUs, a member whose GPU count could not be read (ssh failed or
\* timed out), mpirun raised (180 s timeout), and the log cases as above
MultiCases == {"few_nodes", "peer_lt8", "peer_failed", "exec_exception",
               "parse_exception", "no_bandwidth", "low_bw", "ok"}

\* run_nccl_multi_node_test(), by collaborator case: passed ("N/A" is
\* "skip") and multi_error_codes
multi_node_result(c) ==
    CASE c = "few_nodes"       -> ProbeResult("skip", <<"NCCL_MULTI1001">>)
      [] c = "peer_lt8"        -> ProbeResult("skip", <<"NCCL_MULTI1002">>)
      [] c = "peer_failed"     -> ProbeResult("skip", <<"NCCL_MULTI1003">>)
      [] c = "exec_exception"  -> ProbeResult("fail", <<"NCCL_MULTI1004">>)
      [] c = "parse_exception" ->
             ProbeResult("fail", <<"NCCL_MULTI1005", "NCCL_MULTI1006">>)
      [] c = "no_bandwidth"    -> ProbeResult("fail", <<"NCCL_MULTI1006">>)
      [] c = "low_bw"          -> ProbeResult("fail", <<"NCCL_MULTI1007">>)
      [] c = "ok"              -> ProbeResult("pass", <<>>)

\* the cases in which a collaborator of the probe itself failed (non-zero
\* exit, timeout, execution exception)
GpuCollabFailed == {"exit_nonzero", "timeout", "exception"}
NcclCollabFailed == {"smi_exception", "exec_exception"}
MultiCollabFailed == {"peer_failed", "exec_exception"}

\* the codes of a skipped probe are kept
SkipCleared_Keeps(p) == p.codes

\* lines 303-304 and 319-320: the codes of a skipped probe are dropped
SkipCleared(p) == IF p.passed = "skip" THEN <<>> ELSE p.codes

\* line 341: error_codes = nhc_err_codes + nccl_err_codes + multi_err_codes
error_codes(g, n, m) == g.codes \o SkipCleared(n) \o SkipCleared(m)

\* lines 290-341: one CHECKING pass over the three probe results
CheckingResult(g, n, m) ==
    [done |-> TRUE, gpu |-> g, nccl |-> n, multi |-> m,
     overall |-> Overall(g.passed, n.passed, m.passed),
     error_codes |-> error_codes(g, n, m)]

NoPass ==
    [done |-> FALSE, gpu |-> ProbeResult("pass", <<>>),
     nccl |-> ProbeResult("pass", <<>>), multi |-> ProbeResult("pass", <<>>),
     overall |-> TRUE, error_codes |-> <<>>]

\* ---------------------------------------------------------------------
\* Result records
\* ---------------------------------------------------------------------
NoFile == [exists |-> FALSE, node |-> 0, reboot_count |-> 0,
           initial_returncode |-> 0, final_returncode |-> 0]

\* save_result of the runner: the JSON written for node n
save_result(n, rc, init, final) ==
    [exists |-> TRUE, node |-> n, reboot_count |-> rc,
     initial_returncode |-> init, final_returncode |-> final]

\* the coordinator assigns its defaults instead of using setdefault
LoadedEntry_Overwrites(n, f) ==
    [node |-> n, initial_returncode |-> 255, final_returncode |-> 255,
     reboot_count |-> f.reboot_count, error |-> "none"]

\* the entry run_check_on_node returns for a loaded JSON (setdefault keeps
\* every stored value)
LoadedEntry(n, f) ==
    [node |-> f.node, initial_returncode |-> f.initial_returncode,
     final_returncode |-> f.final_returncode,
     reboot_count |-> f.reboot_count, error |-> "none"]

\* the fallback of run_check_on_node when the JSON is missing
MissingEntry(n) ==
    [node |-> n, initial_returncode |-> 255, final_returncode |-> 255,
     reboot_count |-> 0, error |-> "remote JSON not found"]

\* the fallback of the coordinator's main() when the future raised
ExceptionEntry(n) ==
    [node |-> n, initial_returncode |-> 255, final_returncode |-> 255,
     reboot_count |-> 0, error |-> "exception"]

NoEntry == [node |-> 0, initial_returncode |-> 0, final_returncode |-> 0,
            reboot_count |-> 0, error |-> "unset"]

\* ---------------------------------------------------------------------
\* State
\* ---------------------------------------------------------------------
VARIABLES
    cfgEnable,   \* ENABLE_REBOOT_ON_FAILURE in the coordinator's environment
    pc,          \* per node: position of its future / of run_check_on_node
    attempt,     \* per node: loop variable of run_check_on_node
    up,          \* per node: the node answers ssh
    flag,        \* per node: /tmp/reboot_required exists
    file,        \* per node: hpc_check_result_<node>.json
    rcount,      \* per node: the runner's local reboot_count
    ret,         \* per node: value returned by run_check_on_node
    results,     \* the coordinator's result list
    faults,      \* faults injected so far
    reboots,     \* per node: "sudo reboot" commands issued
    checks,      \* per node: remote check invocations (line 80)
    passes,      \* per node: CHECKING passes executed by the runner
    remeds,      \* per node: intermediate results persisted by the runner
    phase,       \* per node: last step of the recovery cycle
    lastOverall, \* per node: overall of the last pass
    lastOwn,     \* per node: overall of the last pass from its own probes
    allFail,     \* per node: every pass so far computed overall = false
    fresh,       \* per node: no result file and no flag at run start
    probeIn,     \* one pass: what the collaborators of the three probes did
    passOut,     \* one pass: the probe results, overall and error_codes
    now,         \* the clock, in hours
    ghrLog,      \* ~/ghr_log.ndjson, one record per line
    all_results, \* argument of the last run_ghr_if_needed call
    failed_nodes, \* the failed_nodes list the call built
    attempts,    \* the submissions the call made: requestId and status
    outcome,     \* how the last call ended
    endpoint,    \* the intake endpoint during the last call
    sleeps,      \* time.sleep(GHR_RETRY_INTERVAL) calls of the last call
    py311,       \* the interpreter is Python 3.11 or later
    recent,      \* dedup scan: value returned by has_recent_success
    mainPc,      \* coordinator main(): position after the pool
    report,      \* coordinator main(): what summarize_and_output did
    wTimeout,    \* wait_for_ssh: its timeout argument, in seconds
    wInterval,   \* wait_for_ssh: its interval argument, in seconds
    elapsed,     \* wait_for_ssh: time.time() - start
    tries,       \* wait_for_ssh: connect attempts made
    okAt,        \* wait_for_ssh: the attempt that connected, 0 if none
    wRet,        \* wait_for_ssh: "none", "running", or the value returned
    rtPc,        \* result artifact: "none", "start", "saved", "loaded"
    rtNode,      \* result artifact: the node the coordinator loads for
    saved,       \* result artifact: the dict given to save_result
    artifact,    \* result artifact: the JSON text of the file, per key
    reloaded,    \* result artifact: the dict run_check_on_node returns
    bwIn,        \* threshold test: measured bandwidths and the thresholds
    bwOut        \* threshold test: what the two NCCL probes returned

fleetVars == <<cfgEnable, pc, attempt, up, flag, file, rcount, ret, results,
               faults, reboots, checks, passes, remeds, phase, lastOverall,
               lastOwn, allFail, fresh>>

passVars == <<probeIn, passOut>>

ghrVars == <<now, ghrLog, all_results, failed_nodes, attempts, outcome,
             endpoint, sleeps>>

scanVars == <<py311, recent>>

tailVars == <<mainPc, report>>

waitVars == <<wTimeout, wInterval, elapsed, tries, okAt, wRet>>

rtVars == <<rtPc, rtNode, saved, artifact, reloaded>>

bwVars == <<bwIn, bwOut>>

vars == <<fleetVars, passVars, ghrVars, scanVars, tailVars, waitVars,
          rtVars, bwVars>>

\* what the actions of one part of the program leave alone: the state of
\* the other parts
offFleet == <<passVars, ghrVars, scanVars, tailVars, waitVars, rtVars,
              bwVars>>
offPass == <<fleetVars, ghrVars, scanVars, tailVars, waitVars, rtVars,
             bwVars>>
offGhr == <<fleetVars, passVars, scanVars, tailVars, waitVars, rtVars,
            bwVars>>
offScan == <<fleetVars, passVars, tailVars, waitVars, rtVars,
             bwVars>>
offTail == <<fleetVars, passVars, ghrVars, scanVars, waitVars, rtVars,
             bwVars>>
offWait == <<fleetVars, passVars, ghrVars, scanVars, tailVars, rtVars,
             bwVars>>
offRt == <<fleetVars, passVars, ghrVars, scanVars, tailVars, waitVars,
           bwVars>>
offBw == <<fleetVars, passVars, ghrVars, scanVars, tailVars, waitVars,
           rtVars>>

ghost == <<reboots, checks, passes, remeds, phase, lastOverall, lastOwn,
           allFail, fresh>>

RunPcs == {"invoke", "runner", "testflag", "wait"}
DonePcs == {"returned", "raised"}

Running == {n \in Nodes : pc[n] \in RunPcs}

\* a fault can still be injected
CanFault == faults < MaxFaults

\* results a previous run of the same timestamp may have left behind
StoredFiles ==
    {save_result(0, r, 0, 1) : r \in 0..MAX_REBOOT_COUNT}

\* what a node can look like when the fleet run starts: reachable and clean,
\* unreachable, with a flag left in /tmp, or with a stored result
NodeStarts ==
    {[up |-> TRUE,  flag |-> FALSE, file |-> NoFile],
     [up |-> FALSE, flag |-> FALSE, file |-> NoFile],
     [up |-> TRUE,  flag |-> TRUE,  file |-> NoFile]}
    \cup {[up |-> TRUE, flag |-> FALSE, file |-> f] : f \in StoredFiles}

CleanStart == [up |-> TRUE, flag |-> FALSE, file |-> NoFile]

InitFile(n, f) == IF f.exists THEN [f EXCEPT !.node = n] ELSE f

\* no CHECKING pass is being examined on its own
PassIdle ==
    /\ probeIn = [gpu |-> "log_clean", nccl |-> "ok", multi |-> "ok"]
    /\ passOut = NoPass

\* run_ghr_if_needed was never called and nothing was ever logged
GhrIdle ==
    /\ now = 0
    /\ ghrLog = <<>>
    /\ all_results = <<>>
    /\ failed_nodes = <<>>
    /\ attempts = <<>>
    /\ outcome = "none"
    /\ endpoint = "up"
    /\ sleeps = 0

\* has_recent_success was not called
ScanIdle ==
    /\ py311 = TRUE
    /\ recent = "none"

\* main() is still inside its `with ThreadPoolExecutor` block
TailIdle ==
    /\ mainPc = "pool"
    /\ report = "none"

\* wait_for_ssh was not called
WaitIdle ==
    /\ wTimeout = 0
    /\ wInterval = 1
    /\ elapsed = 0
    /\ tries = 0
    /\ okAt = 0
    /\ wRet = "none"

\* a dict without keys
EmptyDict == [k \in {} |-> 0]

\* no result file is being written or loaded on its own
RtIdle ==
    /\ rtPc = "none"
    /\ rtNode = 1
    /\ saved = EmptyDict
    /\ artifact = EmptyDict
    /\ reloaded = EmptyDict

\* no probe result without a verdict on its bandwidth
NoVerdict == [passed |-> "none", codes |-> <<>>]

\* no bandwidth is being compared with a threshold on its own
BwIdle ==
    /\ bwIn = [bandwidth |-> 0, busbw |-> 0, NCCL_BW_THRESHOLD |-> 1,
               NCCL_MULTI_BW_THRESHOLD |-> 1]
    /\ bwOut = [nccl |-> NoVerdict, multi |-> NoVerdict]

\* the fleet before the submit of main(): every node queued
FleetInit ==
    /\ cfgEnable \in BOOLEAN
    /\ pc = [n \in Nodes |-> "queued"]
    /\ attempt = [n \in Nodes |-> 1]
    /\ \E st \in [Nodes -> NodeStarts] :
          /\ Cardinality({n \in Nodes : st[n] # CleanStart}) <= 1
          /\ up = [n \in Nodes |-> st[n].up]
          /\ flag = [n \in Nodes |-> st[n].flag]
          /\ file = [n \in Nodes |-> InitFile(n, st[n].file)]
          /\ faults = Cardinality({n \in Nodes : st[n] # CleanStart})
                      + (IF cfgEnable THEN 0 ELSE 1)
    /\ rcount = [n \in Nodes |-> 0]
    /\ ret = [n \in Nodes |-> NoEntry]
    /\ results = <<>>
    /\ reboots = [n \in Nodes |-> 0]
    /\ checks = [n \in Nodes |-> 0]
    /\ passes = [n \in Nodes |-> 0]
    /\ remeds = [n \in Nodes |-> 0]
    /\ phase = [n \in Nodes |-> "none"]
    /\ lastOverall = [n \in Nodes |-> TRUE]
    /\ lastOwn = [n \in Nodes |-> TRUE]
    /\ allFail = [n \in Nodes |-> TRUE]
    /\ fresh = [n \in Nodes |-> (~file[n].exists) /\ ~flag[n]]

\* a fleet of clean, reachable nodes on which nothing is run
FleetIdle ==
    /\ cfgEnable = TRUE
    /\ pc = [n \in Nodes |-> "queued"]
    /\ attempt = [n \in Nodes |-> 1]
    /\ up = [n \in Nodes |-> TRUE]
    /\ flag = [n \in Nodes |-> FALSE]
    /\ file = [n \in Nodes |-> NoFile]
    /\ faults = 0
    /\ rcount = [n \in Nodes |-> 0]
    /\ ret = [n \in Nodes |-> NoEntry]
    /\ results = <<>>
    /\ reboots = [n \in Nodes |-> 0]
    /\ checks = [n \in Nodes |-> 0]
    /\ passes = [n \in Nodes |-> 0]
    /\ remeds = [n \in Nodes |-> 0]
    /\ phase = [n \in Nodes |-> "none"]
    /\ lastOverall = [n \in Nodes |-> TRUE]
    /\ lastOwn = [n \in Nodes |-> TRUE]
    /\ allFail = [n \in Nodes |-> TRUE]
    /\ fresh = [n \in Nodes |-> TRUE]

Init ==
    /\ FleetInit
    /\ PassIdle
    /\ GhrIdle
    /\ ScanIdle
    /\ TailIdle
    /\ WaitIdle
    /\ RtIdle
    /\ BwIdle

\* ---------------------------------------------------------------------
\* The worker pool (main, ThreadPoolExecutor(max_workers=MAX_PARALLEL))
\* ---------------------------------------------------------------------
\* the pool admits one worker too many
PoolHasWorker_OffByOne(running) == Cardinality(running) <= MAX_PARALLEL

\* a worker takes the next queued node, in submission order
PoolHasWorker(running) == Cardinality(running) < MAX_PARALLEL

Start(n) ==
    /\ pc[n] = "queued"
    /\ \A m \in Nodes : m < n => pc[m] # "queued"
    /\ PoolHasWorker(Running)
    /\ pc' = [pc EXCEPT ![n] = "invoke"]
    /\ UNCHANGED <<cfgEnable, attempt, up, flag, file, rcount, ret, results,
                   faults>>
    /\ UNCHANGED ghost
    /\ UNCHANGED offFleet

\* ---------------------------------------------------------------------
\* run_check_on_node(node): one recovery cycle, run on a pool worker
\* ---------------------------------------------------------------------
\* line 80: ssh <node> python3 run_all_nodes_check.py.  On a node that
\* answers, the runner starts and loads its reboot_count from the stored
\* result; on a node that does not, ssh exits non-zero or the 600 s timeout
\* expires (TimeoutExpired propagates out of run_check_on_node).
InvokeRunner(n) ==
    /\ pc[n] = "invoke"
    /\ checks' = [checks EXCEPT ![n] = @ + 1]
    /\ \/ /\ up[n]
          /\ pc' = [pc EXCEPT ![n] = "runner"]
          /\ rcount' = [rcount EXCEPT ![n] =
                  IF file[n].exists THEN file[n].reboot_count ELSE 0]
          /\ UNCHANGED faults
       \/ /\ ~up[n]
          /\ pc' = [pc EXCEPT ![n] = "testflag"]
          /\ UNCHANGED <<rcount, faults>>
       \/ /\ ~up[n]
          /\ CanFault
          /\ faults' = faults + 1
          /\ pc' = [pc EXCEPT ![n] = "raised"]
          /\ UNCHANGED rcount
    /\ UNCHANGED <<cfgEnable, attempt, up, flag, file, ret, results>>
    /\ UNCHANGED <<reboots, passes, remeds, phase, lastOverall, lastOwn,
                   allFail, fresh>>
    /\ UNCHANGED offFleet

\* the 600 s timeout of line 80 expires while the runner is between passes
InvokeTimeout(n) ==
    /\ pc[n] = "runner"
    /\ CanFault
    /\ faults' = faults + 1
    /\ pc' = [pc EXCEPT ![n] = "raised"]
    /\ rcount' = [rcount EXCEPT ![n] = 0]
    /\ UNCHANGED <<cfgEnable, attempt, up, flag, file, ret, results>>
    /\ UNCHANGED ghost
    /\ UNCHANGED offFleet

\* runner main(), one iteration of `while True`: run the three probes,
\* compute overall, then either remediate (touch the flag, increment,
\* save the intermediate JSON, continue) or write the final JSON and exit.
\* fetch_imds_resource_id() is called on the final path only and may raise
\* before the final save (imds = FALSE): the runner then exits without
\* writing.
RunnerPass(n) ==
    /\ pc[n] = "runner"
    /\ \E gpu \in GpuOutcomes, nccl \in ProbeOutcomes,
          raw \in ProbeOutcomes, imds \in BOOLEAN :
        LET multi   == run_nccl_multi_node_test(raw, up)
            overall == Overall(gpu, nccl, multi)
            own     == Overall(gpu, nccl,
                         run_nccl_multi_node_test(raw, [m \in Nodes |-> TRUE]))
            enable  == SshEnableReboot(cfgEnable)
            remed   == Remediate(overall, enable, rcount[n], MAX_REBOOT_COUNT)
            cost    == (IF own \/ (passes[n] > 0 /\ allFail[n]) THEN 0 ELSE 1)
                       + (IF (~remed) /\ ~imds THEN 1 ELSE 0)
        IN  /\ faults + cost <= MaxFaults
            /\ remed => imds
            /\ faults' = faults + cost
            /\ passes' = [passes EXCEPT ![n] = @ + 1]
            /\ lastOverall' = [lastOverall EXCEPT ![n] = overall]
            /\ lastOwn' = [lastOwn EXCEPT ![n] = own]
            /\ allFail' = [allFail EXCEPT ![n] = @ /\ ~overall]
            /\ phase' = [phase EXCEPT ![n] = "checked"]
            /\ IF remed
               THEN /\ flag' = [flag EXCEPT ![n] = TRUE]
                    /\ rcount' = [rcount EXCEPT ![n] = @ + 1]
                    /\ file' = [file EXCEPT ![n] =
                          save_result(n, rcount[n] + 1,
                                      IF overall THEN 0 ELSE 1, 0)]
                    /\ remeds' = [remeds EXCEPT ![n] = @ + 1]
                    /\ UNCHANGED pc
               ELSE /\ file' = [file EXCEPT ![n] =
                          IF imds
                          THEN save_result(n, rcount[n], 0,
                                           IF overall THEN 0 ELSE 1)
                          ELSE @]
                    /\ pc' = [pc EXCEPT ![n] = "testflag"]
                    /\ rcount' = [rcount EXCEPT ![n] = 0]
                    /\ UNCHANGED <<flag, remeds>>
    /\ UNCHANGED <<cfgEnable, attempt, up, ret, results>>
    /\ UNCHANGED <<reboots, checks, fresh>>
    /\ UNCHANGED offFleet

\* the attempt bound is one too large
AttemptsExhausted_OneMore(a) == a > MAX_REBOOT_COUNT + 1

\* line 96: the loop stops rebooting once attempt > MAX_REBOOT_COUNT
AttemptsExhausted(a) == a > MAX_REBOOT_COUNT

\* lines 87-98: the loop is left when the flag test fails (no flag, or the
\* node does not answer) or the attempts are exhausted
LeaveLoop(isUp, hasFlag, a) ==
    (~isUp) \/ (~hasFlag) \/ AttemptsExhausted(a)

\* lines 121-143: load the result JSON or build the fallback
LoadResult(n, f) ==
    IF f.exists THEN LoadedEntry(n, f) ELSE MissingEntry(n)

\* lines 87-105 and 121-143: test the flag, then either leave the loop and
\* return the loaded result, or issue `sudo reboot` (its 30 s timeout may
\* raise)
TestFlag(n) ==
    /\ pc[n] = "testflag"
    /\ IF LeaveLoop(up[n], flag[n], attempt[n])
       THEN /\ ret' = [ret EXCEPT ![n] = LoadResult(n, file[n])]
            /\ pc' = [pc EXCEPT ![n] = "returned"]
            /\ UNCHANGED <<up, faults, reboots, phase>>
       ELSE /\ reboots' = [reboots EXCEPT ![n] = @ + 1]
            /\ up' = [up EXCEPT ![n] = FALSE]
            /\ phase' = [phase EXCEPT ![n] = "rebooted"]
            /\ \/ /\ pc' = [pc EXCEPT ![n] = "wait"]
                  /\ UNCHANGED faults
               \/ /\ CanFault
                  /\ faults' = faults + 1
                  /\ pc' = [pc EXCEPT ![n] = "raised"]
            /\ UNCHANGED ret
    /\ UNCHANGED <<cfgEnable, attempt, flag, file, rcount, results>>
    /\ UNCHANGED <<checks, passes, remeds, lastOverall, lastOwn, allFail,
                   fresh>>
    /\ UNCHANGED offFleet

\* lines 107-119: sleep, wait_for_ssh (True when the node is back, False at
\* its timeout; the value is not used), rm -f of the flag (its 10 s timeout
\* may raise), then the next iteration of range(1, MAX_REBOOT_COUNT + 2)
WaitAndClear(n) ==
    /\ pc[n] = "wait"
    /\ phase' = [phase EXCEPT ![n] = "waited"]
    /\ \/ /\ up' = [up EXCEPT ![n] = TRUE]
          /\ flag' = [flag EXCEPT ![n] = FALSE]
          /\ UNCHANGED faults
          /\ IF attempt[n] + 1 < MAX_REBOOT_COUNT + 2
             THEN /\ attempt' = [attempt EXCEPT ![n] = @ + 1]
                  /\ pc' = [pc EXCEPT ![n] = "invoke"]
                  /\ UNCHANGED ret
             ELSE /\ ret' = [ret EXCEPT ![n] = LoadResult(n, file[n])]
                  /\ pc' = [pc EXCEPT ![n] = "returned"]
                  /\ UNCHANGED attempt
       \/ /\ CanFault
          /\ faults' = faults + 1
          /\ UNCHANGED <<up, flag, ret>>
          /\ \/ /\ attempt' = [attempt EXCEPT ![n] = @ + 1]
                /\ pc' = [pc EXCEPT ![n] = "invoke"]
             \/ /\ pc' = [pc EXCEPT ![n] = "raised"]
                /\ UNCHANGED attempt
    /\ UNCHANGED <<cfgEnable, file, rcount, results>>
    /\ UNCHANGED <<reboots, checks, passes, remeds, lastOverall, lastOwn,
                   allFail, fresh>>
    /\ UNCHANGED offFleet

\* ---------------------------------------------------------------------
\* main(): for fut in as_completed(futures)
\* ---------------------------------------------------------------------
\* an exception of one future replaces every entry by the fallback
CollectedEntry_AlwaysFallback(n, raised, data) == ExceptionEntry(n)

CollectedEntry(n, raised, data) ==
    IF raised THEN ExceptionEntry(n) ELSE data

\* the except branch logs the error but appends nothing
AppendResult_DropsRaised(res, n, raised, data) ==
    IF raised THEN res ELSE Append(res, data)

AppendResult(res, n, raised, data) ==
    Append(res, CollectedEntry(n, raised, data))

Collect(n) ==
    /\ pc[n] \in DonePcs
    /\ results' = AppendResult(results, n, pc[n] = "raised", ret[n])
    /\ pc' = [pc EXCEPT ![n] = "collected"]
    /\ UNCHANGED <<cfgEnable, attempt, up, flag, file, rcount, ret, faults>>
    /\ UNCHANGED ghost
    /\ UNCHANGED offFleet

Cycle(n) ==
    \/ InvokeRunner(n)
    \/ InvokeTimeout(n)
    \/ RunnerPass(n)
    \/ TestFlag(n)
    \/ WaitAndClear(n)

Next ==
    \E n \in Nodes :
        \/ Start(n)
        \/ Cycle(n)
        \/ Collect(n)

Spec == Init /\ [][Next]_vars

PoolDrained == \A n \in Nodes : pc[n] = "collected"

TypeOK ==
    /\ pc \in [Nodes -> {"queued", "collected"} \cup RunPcs \cup DonePcs]
    /\ attempt \in [Nodes -> 1..(MAX_REBOOT_COUNT + 1)]
    /\ Len(results) <= NODE_COUNT
    /\ faults \in 0..MaxFaults

\* the scheduler runs every started worker and the collector; every
\* blocking call of a cycle returns or raises
FairSpec ==
    /\ Spec
    /\ \A n \in Nodes :
          /\ WF_vars(Start(n))
          /\ WF_vars(Cycle(n))
          /\ WF_vars(Collect(n))

\* the steps of a cycle whose blocking calls carry a timeout: the remote
\* check (line 80, timeout=600, which also bounds the runner), the sleep
\* of line 109, wait_for_ssh (line 110, 300 s) and the flag removal (line
\* 113, timeout=10)
TimedStep(n) ==
    \/ InvokeRunner(n)
    \/ InvokeTimeout(n)
    \/ RunnerPass(n)
    \/ WaitAndClear(n)

\* the scheduler runs every worker and the collector, and a blocking call
\* is sure to end only where the code bounds it.  The flag test of lines
\* 87-90 is a subprocess.run without timeout: when the remote side never
\* answers, nothing makes TestFlag happen.
TimeoutSpec ==
    /\ Spec
    /\ \A n \in Nodes :
          /\ WF_vars(Start(n))
          /\ WF_vars(TimedStep(n))
          /\ WF_vars(Collect(n))

\* the future of node n ended with an exception
Raised(n) ==
    \/ pc[n] = "raised"
    \/ pc[n] = "collected" /\ ret[n] = NoEntry

\* node n was rebooted and did not answer again: wait_for_ssh timed out and
\* every later remote command fails
Lost(n) == phase[n] = "waited" /\ ~up[n]

\* positions of node n's entries in the result list
EntriesOf(n) == {i \in 1..Len(results) : results[i].node = n}

\* ---------------------------------------------------------------------
\* One CHECKING pass of the runner on its own (runner main, lines 290-341)
\* ---------------------------------------------------------------------
ProbeInputs == [gpu : GpuCases, nccl : NcclCases, multi : MultiCases]

PassInit ==
    /\ FleetIdle
    /\ GhrIdle
    /\ ScanIdle
    /\ TailIdle
    /\ WaitIdle
    /\ RtIdle
    /\ BwIdle
    /\ probeIn \in ProbeInputs
    /\ passOut = NoPass

\* the pass runs the three probes and aggregates their results
CheckingPass ==
    /\ ~passOut.done
    /\ passOut' = CheckingResult(run_gpu_health_check(probeIn.gpu),
                                 run_nccl_test(probeIn.nccl),
                                 multi_node_result(probeIn.multi))
    /\ UNCHANGED probeIn
    /\ UNCHANGED offPass

PassNext == CheckingPass

PassSpec == PassInit /\ [][PassNext]_vars

\* ---------------------------------------------------------------------
\* The bandwidth verdict of the two NCCL probes (runner lines 153-160 and
\* 236-241), on its own
\* ---------------------------------------------------------------------
\* bandwidths and thresholds range over 0..MaxBw; the thresholds are read
\* from the environment (health_manager_config.py lines 57-58, defaults
\* 480.0 and 350.0)
MaxBw == 4

Bandwidths == 0..MaxBw
Thresholds == 1..(MaxBw - 1)

\* the comparison excludes the threshold itself
MeetsThreshold_Strict(measured, threshold) == measured > threshold

\* lines 154 and 236: passed = bandwidth >= threshold
MeetsThreshold(measured, threshold) == measured >= threshold

\* the collaborator case of a probe whose log gave a bandwidth: the list
\* of codes is empty when lines 154 and 236 are reached
BwCase(measured, threshold) ==
    IF MeetsThreshold(measured, threshold) THEN "ok" ELSE "low_bw"

BwInit ==
    /\ FleetIdle
    /\ PassIdle
    /\ GhrIdle
    /\ ScanIdle
    /\ TailIdle
    /\ WaitIdle
    /\ RtIdle
    /\ bwIn \in [bandwidth : Bandwidths, busbw : Bandwidths,
                 NCCL_BW_THRESHOLD : Thresholds,
                 NCCL_MULTI_BW_THRESHOLD : Thresholds]
    /\ bwOut = [nccl |-> NoVerdict, multi |-> NoVerdict]

\* run_nccl_test() from line 153 on, with the bandwidth of the 4G line
NcclThreshold ==
    /\ bwOut.nccl = NoVerdict
    /\ bwOut' = [bwOut EXCEPT !.nccl =
                    run_nccl_test(BwCase(bwIn.bandwidth,
                                         bwIn.NCCL_BW_THRESHOLD))]
    /\ UNCHANGED bwIn
    /\ UNCHANGED offBw

\* run_nccl_multi_node_test() from line 236 on, with the busbw of the 4G
\* line
MultiThreshold ==
    /\ bwOut.multi = NoVerdict
    /\ bwOut' = [bwOut EXCEPT !.multi =
                    multi_node_result(BwCase(bwIn.busbw,
                                             bwIn.NCCL_MULTI_BW_THRESHOLD))]
    /\ UNCHANGED bwIn
    /\ UNCHANGED offBw

BwNext ==
    \/ NcclThreshold
    \/ MultiThreshold

BwSpec == BwInit /\ [][BwNext]_vars

\* ---------------------------------------------------------------------
\* Escalation (ghr_submission_controller.py, ghr_payload_utils.py)
\* ---------------------------------------------------------------------
\* GHR settings of health_manager_config.py, read from the environment;
\* the clock of the model counts hours
ENABLE_GHR == TRUE
GHR_MAX_RETRIES == 3
GHR_SKIP_HOURS == 2
GHR_MAX_NODES == 2

\* the clock stops at MaxTime
MaxTime == 4

\* get_current_timestamps(), ghr_payload_utils.py lines 44-58.  Line 52-53
\* build the UTC string (ISO 8601, seconds, 'Z'); line 56 then calls
\* now_utc.astimezone(timedelta(hours=9)): astimezone takes a tzinfo, a
\* timedelta is none, and the call raises TypeError.  The function raises
\* on every call and returns nothing.
get_current_timestamps(t) ==
    [raised |-> TRUE, utc |-> [sec |-> t, tz |-> "Z"]]

\* an entry as the runner's JSON gives it: the codes are under error_codes
\* and the three keys read by the escalation are absent (get() gives [])
RunnerEntry(n, codes) ==
    [node |-> n, error_codes |-> codes, nhc_error_codes |-> <<>>,
     nccl_error_codes |-> <<>>, multi_error_codes |-> <<>>]

\* an entry of a caller that fills the three keys
KeyedEntry(n, nhc, nccl, multi) ==
    [node |-> n, error_codes |-> <<>>, nhc_error_codes |-> nhc,
     nccl_error_codes |-> nccl, multi_error_codes |-> multi]

EntryShapes(n) ==
    {RunnerEntry(n, <<>>),
     RunnerEntry(n, <<"NHC2001">>),
     KeyedEntry(n, <<"NHC2001">>, <<>>, <<"NCCL_MULTI1007">>)}

\* the result lists handed to run_ghr_if_needed: one entry per node
GhrInputs ==
    {[i \in 1..NODE_COUNT |-> sh[i]] :
        sh \in {f \in [Nodes -> UNION {EntryShapes(n) : n \in Nodes}] :
                   \A n \in Nodes : f[n] \in EntryShapes(n)}}

\* lines 69-73: the codes the escalation reads from an entry
EntryCodes(entry) ==
    entry.nhc_error_codes \o entry.nccl_error_codes \o entry.multi_error_codes

\* lines 67-75: failed_nodes, in input order
RECURSIVE ExtractFailed(_)
ExtractFailed(rs) ==
    IF rs = <<>> THEN <<>>
    ELSE LET codes == EntryCodes(Head(rs))
             rest  == ExtractFailed(Tail(rs))
         IN  IF codes # <<>>
             THEN <<[node |-> Head(rs).node, errors |-> codes]>> \o rest
             ELSE rest

\* submit_ghr_request, lines 103-104: the endpoint answers 2xx ("up"), or
\* every request of the call fails: connection error, 30 s timeout, or an
\* error status raised by raise_for_status ("down")
Endpoint == {"up", "down"}

GhrInit ==
    /\ FleetIdle
    /\ PassIdle
    /\ GhrIdle
    /\ ScanIdle
    /\ TailIdle
    /\ WaitIdle
    /\ RtIdle
    /\ BwIdle

\* run_ghr_if_needed(all_results).  Its first statement, line 54, is
\* `utc, jst = get_current_timestamps()`: the TypeError of that call leaves
\* the function before ENABLE_GHR is tested; no gate is evaluated, no
\* failed_nodes list or payload is built, nothing is submitted and nothing
\* is logged (record_ghr_log starts with the same call, line 112), and the
\* time.sleep of the retry loop (line 107) is not reached.
RunGhr ==
    /\ \E input \in GhrInputs, net \in Endpoint :
        /\ get_current_timestamps(now).raised
        /\ all_results' = input
        /\ endpoint' = net
        /\ outcome' = "raised"
        /\ failed_nodes' = <<>>
        /\ attempts' = <<>>
        /\ sleeps' = 0
    /\ UNCHANGED <<now, ghrLog>>
    /\ UNCHANGED offGhr

\* time passes between two calls
Tick ==
    /\ now < MaxTime
    /\ now' = now + 1
    /\ UNCHANGED <<ghrLog, all_results, failed_nodes, attempts, outcome,
                   endpoint, sleeps>>
    /\ UNCHANGED offGhr

GhrNext ==
    \/ RunGhr
    \/ Tick

GhrSpec == GhrInit /\ [][GhrNext]_vars

\* ---------------------------------------------------------------------
\* The dedup scan on its own (has_recent_success, controller lines 28-46)
\* ---------------------------------------------------------------------
\* the log given to the scan holds at most MaxLog lines
MaxLog == 2

\* the "timestamp" text of a line: written at clock reading sec, with the
\* suffix 'Z' (as record_ghr_log writes it), with the offset +00:00, with
\* no offset (tz ""), or not an ISO 8601 text at all (tz "?")
ParsableZones == {"Z", "+00:00", ""}

\* the key "timestamp" is not in the line's object
NoTimestamp == [sec |-> 0, tz |-> "absent"]

\* a line json.loads rejects (the other fields are not read)
GarbageLine ==
    [parses |-> FALSE, status |-> "failure", timestamp |-> NoTimestamp]

LogLines ==
    {GarbageLine}
    \cup [parses : {TRUE}, status : {"success", "failure"},
          timestamp : {NoTimestamp, [sec |-> 0, tz |-> "?"]}]
    \cup [parses : {TRUE}, status : {"success", "failure"},
          timestamp : [sec : 0..MaxTime, tz : ParsableZones]]

Logs == UNION {[1..k -> LogLines] : k \in 0..MaxLog}

\* datetime.fromisoformat (line 41): 'Z' is accepted from Python 3.11 on and
\* raises ValueError before; a text without offset gives a naive datetime
fromisoformat(ts, v311) ==
    [ok    |-> \/ ts.tz \in {"+00:00", ""}
               \/ ts.tz = "Z" /\ v311,
     aware |-> ts.tz \in {"Z", "+00:00"},
     sec   |-> ts.sec]

\* lines 40-45, the body of the loop for one line: "except" when a
\* statement of the try block raises (json.loads, entry["timestamp"],
\* fromisoformat, or the comparison of a naive with an aware datetime),
\* "return" at line 43, "next" when the condition of line 42 is false
ScanLine(line, cutoff, v311) ==
    LET ts == fromisoformat(line.timestamp, v311)
    IN  IF ~line.parses THEN "except"
        ELSE IF line.timestamp = NoTimestamp THEN "except"
        ELSE IF ~ts.ok THEN "except"
        ELSE IF line.status # "success" THEN "next"
        ELSE IF ~ts.aware THEN "except"
        ELSE IF ts.sec >= cutoff THEN "return"
        ELSE "next"

\* the scan gives up at the first line that raises
AfterExcept_Breaks(rest) == FALSE

\* lines 44-45: `except Exception: continue`, the scan goes on with the
\* lines before
AfterExcept(rest) == rest

\* lines 38-46: the lines from the newest (index i) to the oldest
RECURSIVE ScanFrom(_, _, _, _)
ScanFrom(log, i, cutoff, v311) ==
    IF i = 0 THEN FALSE
    ELSE LET step == ScanLine(log[i], cutoff, v311)
         IN  CASE step = "return" -> TRUE
               [] step = "except" ->
                      AfterExcept(ScanFrom(log, i - 1, cutoff, v311))
               [] step = "next"   -> ScanFrom(log, i - 1, cutoff, v311)

\* has_recent_success(hours) at clock reading t, on the log as the file
\* holds it (a missing file reads as the empty log, lines 33-34)
has_recent_success(log, t, hours, v311) ==
    ScanFrom(log, Len(log), t - hours, v311)

\* the scan is made at the end of the clock's range, on a log whose lines
\* were written, by this program or by anything else, at any reading
ScanInit ==
    /\ FleetIdle
    /\ PassIdle
    /\ now = MaxTime
    /\ ghrLog \in Logs
    /\ all_results = <<>>
    /\ failed_nodes = <<>>
    /\ attempts = <<>>
    /\ outcome = "none"
    /\ endpoint = "up"
    /\ sleeps = 0
    /\ py311 \in BOOLEAN
    /\ recent = "none"
    /\ TailIdle
    /\ WaitIdle
    /\ RtIdle
    /\ BwIdle

Scan ==
    /\ recent = "none"
    /\ recent' = IF has_recent_success(ghrLog, now, GHR_SKIP_HOURS, py311)
                 THEN "true" ELSE "false"
    /\ UNCHANGED <<py311, ghrVars>>
    /\ UNCHANGED offScan

ScanNext == Scan

ScanSpec == ScanInit /\ [][ScanNext]_vars

\* ---------------------------------------------------------------------
\* main() after the pool (orchestrator lines 174-197), on its own
\* ---------------------------------------------------------------------
\* an entry of the result list with the error_codes its JSON carries (the
\* fallback entries have no such key)
WithCodes(e, codes) ==
    [node |-> e.node, initial_returncode |-> e.initial_returncode,
     final_returncode |-> e.final_returncode,
     reboot_count |-> e.reboot_count, error |-> e.error,
     error_codes |-> codes]

\* what the pool can have collected for node n: the result of a passing
\* run, of a failing run with an error code, of a failing run without one
\* (NHC script exit, timeout), or one of the two fallbacks
TailEntries(n) ==
    {WithCodes(LoadedEntry(n, save_result(n, 0, 0, 0)), <<>>),
     WithCodes(LoadedEntry(n, save_result(n, MAX_REBOOT_COUNT, 0, 1)),
               <<"NCCL1006">>),
     WithCodes(LoadedEntry(n, save_result(n, MAX_REBOOT_COUNT, 0, 1)), <<>>),
     WithCodes(MissingEntry(n), <<>>),
     WithCodes(ExceptionEntry(n), <<>>)}

\* the result lists of the fleets of get_nodes(), of every size up to
\* NODE_COUNT (the size is re-read from the configuration at each run):
\* one entry per node
TailResults ==
    UNION {{r \in [1..k -> UNION {TailEntries(n) : n \in Nodes}] :
               \A i \in 1..k : r[i] \in TailEntries(i)} : k \in 0..NODE_COUNT}

\* what happens to the files of the report: written, or an OSError
\* (makedirs or open fails, disk full)
ReportIo == {"ok", "oserror"}

\* summarize_and_output(results, result_dir): os.makedirs (line 121),
\* results[0] (line 123, IndexError on an empty list), then the CSV and the
\* HTML file; nothing in it catches an exception
summarize_and_output(res, io) ==
    IF io = "oserror" THEN "failed"
    ELSE IF Len(res) = 0 THEN "failed"
    ELSE "written"

\* the pool has drained and the `with` block was left
TailInit ==
    /\ cfgEnable = TRUE
    /\ pc = [n \in Nodes |-> "collected"]
    /\ attempt = [n \in Nodes |-> 1]
    /\ up = [n \in Nodes |-> TRUE]
    /\ flag = [n \in Nodes |-> FALSE]
    /\ file = [n \in Nodes |-> NoFile]
    /\ faults = 0
    /\ rcount = [n \in Nodes |-> 0]
    /\ ret = [n \in Nodes |-> NoEntry]
    /\ results \in TailResults
    /\ reboots = [n \in Nodes |-> 0]
    /\ checks = [n \in Nodes |-> 0]
    /\ passes = [n \in Nodes |-> 0]
    /\ remeds = [n \in Nodes |-> 0]
    /\ phase = [n \in Nodes |-> "none"]
    /\ lastOverall = [n \in Nodes |-> TRUE]
    /\ lastOwn = [n \in Nodes |-> TRUE]
    /\ allFail = [n \in Nodes |-> TRUE]
    /\ fresh = [n \in Nodes |-> TRUE]
    /\ PassIdle
    /\ GhrIdle
    /\ ScanIdle
    /\ mainPc = "report"
    /\ report = "none"
    /\ WaitIdle
    /\ RtIdle
    /\ BwIdle

\* lines 175-182: the per-entry log lines, then summarize_and_output; main
\* has no try around the call, so its exception leaves main
Report ==
    /\ mainPc = "report"
    /\ \E io \in ReportIo :
          /\ report' = summarize_and_output(results, io)
          /\ mainPc' = IF report' = "failed" THEN "raised" ELSE "archive"
    /\ UNCHANGED offTail

\* lines 185-197: tar with check=False, the completion message, return;
\* the call of run_ghr_if_needed at line 195 is a comment
Complete ==
    /\ mainPc = "archive"
    /\ mainPc' = "completed"
    /\ UNCHANGED report
    /\ UNCHANGED offTail

TailNext ==
    \/ Report
    \/ Complete

TailSpec == TailInit /\ [][TailNext]_vars

\* ---------------------------------------------------------------------
\* wait_for_ssh(node, timeout, interval) on its own (remote_node_utils.py
\* lines 46-67; the coordinator's copy, lines 37-49, is the same loop)
\* ---------------------------------------------------------------------
\* the arguments: timeout in -1..MaxWait, interval in 1..MaxInterval
MaxWait == 4
MaxInterval == 2

\* s.settimeout(2): a connect attempt ends within 2 seconds
CONNECT_TIMEOUT == 2

\* the loop is entered once more when the deadline itself is reached
LoopContinues_Inclusive(e, timeout) == e <= timeout

\* line 56: while time.time() - start < timeout
LoopContinues(e, timeout) == e < timeout

WaitInit ==
    /\ FleetIdle
    /\ PassIdle
    /\ GhrIdle
    /\ ScanIdle
    /\ TailIdle
    /\ wTimeout \in -1..MaxWait
    /\ wInterval \in 1..MaxInterval
    /\ elapsed = 0
    /\ tries = 0
    /\ okAt = 0
    /\ wRet = "running"
    /\ RtIdle
    /\ BwIdle

\* lines 57-65: one iteration.  The connect takes d seconds; when it
\* succeeds the function returns True (line 62), when it raises the
\* function sleeps for interval (line 65) and tests the deadline again
Connect ==
    /\ wRet = "running"
    /\ LoopContinues(elapsed, wTimeout)
    /\ tries' = tries + 1
    /\ \E d \in 0..CONNECT_TIMEOUT, ok \in BOOLEAN :
          IF ok
          THEN /\ elapsed' = elapsed + d
               /\ okAt' = tries + 1
               /\ wRet' = "True"
          ELSE /\ elapsed' = elapsed + d + wInterval
               /\ UNCHANGED <<okAt, wRet>>
    /\ UNCHANGED <<wTimeout, wInterval>>
    /\ UNCHANGED offWait

\* lines 56 and 66-67: the deadline has passed, return False
LoopExit ==
    /\ wRet = "running"
    /\ ~LoopContinues(elapsed, wTimeout)
    /\ wRet' = "False"
    /\ UNCHANGED <<wTimeout, wInterval, elapsed, tries, okAt>>
    /\ UNCHANGED offWait

WaitNext ==
    \/ Connect
    \/ LoopExit

\* the connect (2 s) and the sleep (interval) both end
WaitSpec == WaitInit /\ [][WaitNext]_vars /\ WF_vars(WaitNext)

\* ---------------------------------------------------------------------
\* A result through the durable artifact: save_result of the runner (lines
\* 247-250), then the load of run_check_on_node (orchestrator lines
\* 121-131)
\* ---------------------------------------------------------------------
\* the keys the coordinator gives a default to
Keys == {"node", "timestamp", "initial_returncode", "final_returncode",
         "reboot_count"}

\* the values a key can carry in a dict given to save_result or found in a
\* file: the node (its number stands for its name), the run's timestamp
\* (1 stands for the runner's CHECK_TIMESTAMP), a return code, a count
KeyValues(k, n) ==
    CASE k = "node"               -> {n}
      [] k = "timestamp"          -> {1}
      [] k = "initial_returncode" -> {0, 1, 255}
      [] k = "final_returncode"   -> {0, 1, 255}
      [] k = "reboot_count"       -> 0..MAX_REBOOT_COUNT

\* the dicts over any subset of the keys; the runner's result carries all
\* five (lines 334-370)
Dicts(n) ==
    LET values == UNION {KeyValues(k, n) : k \in Keys}
    IN  UNION {{d \in [S -> values] : \A k \in S : d[k] \in KeyValues(k, n)} :
                  S \in SUBSET Keys}

\* the decimal digits json.dump writes for an int, and their value as
\* json.load reads it
RECURSIVE ToDigits(_)
ToDigits(i) == IF i < 10 THEN <<i>> ELSE Append(ToDigits(i \div 10), i % 10)

RECURSIVE FromDigits(_)
FromDigits(ds) ==
    IF Len(ds) = 1 THEN ds[1]
    ELSE 10 * FromDigits(SubSeq(ds, 1, Len(ds) - 1)) + ds[Len(ds)]

\* json.dump(res, f): a string for the two text values, a number otherwise
json_dump(d) ==
    [k \in DOMAIN d |->
        IF k \in {"node", "timestamp"}
        THEN [type |-> "string", text |-> <<d[k]>>]
        ELSE [type |-> "number", text |-> ToDigits(d[k])]]

\* json.load(f)
json_load(a) ==
    [k \in DOMAIN a |->
        IF a[k].type = "string" THEN a[k].text[1]
        ELSE FromDigits(a[k].text)]

\* the default replaces the value
setdefault_Assigns(d, k, v) ==
    [x \in DOMAIN d \cup {k} |-> IF x = k THEN v ELSE d[x]]

\* dict.setdefault(k, v): d[k] is set only when k is not in d
setdefault(d, k, v) ==
    IF k \in DOMAIN d THEN d
    ELSE [x \in DOMAIN d \cup {k} |-> IF x = k THEN v ELSE d[x]]

\* lines 126-130: the coordinator's defaults (0 stands for its TIMESTAMP)
LoadData(a, n) ==
    LET d0 == json_load(a)
        d1 == setdefault(d0, "node", n)
        d2 == setdefault(d1, "timestamp", 0)
        d3 == setdefault(d2, "initial_returncode", 255)
        d4 == setdefault(d3, "final_returncode", 255)
    IN  setdefault(d4, "reboot_count", 0)

RtInit ==
    /\ FleetIdle
    /\ PassIdle
    /\ GhrIdle
    /\ ScanIdle
    /\ TailIdle
    /\ WaitIdle
    /\ BwIdle
    /\ rtPc = "start"
    /\ rtNode \in Nodes
    /\ saved \in Dicts(rtNode)
    /\ artifact = EmptyDict
    /\ reloaded = EmptyDict

\* save_result(res): open(RESULT_FILE, "w"), json.dump
SaveResult ==
    /\ rtPc = "start"
    /\ artifact' = json_dump(saved)
    /\ rtPc' = "saved"
    /\ UNCHANGED <<rtNode, saved, reloaded>>
    /\ UNCHANGED offRt

\* lines 122-131: the file exists, json.load, the five setdefault calls
LoadJson ==
    /\ rtPc = "saved"
    /\ reloaded' = LoadData(artifact, rtNode)
    /\ rtPc' = "loaded"
    /\ UNCHANGED <<rtNode, saved, artifact>>
    /\ UNCHANGED offRt

RtNext ==
    \/ SaveResult
    \/ LoadJson

RoundTripSpec == RtInit /\ [][RtNext]_vars

\* ---------------------------------------------------------------------
\* C1: when the pool has drained, the result list holds exactly NODE_COUNT
\* entries and every node identifier appears in exactly one of them,
\* whatever the per-node outcomes were (normal return, missing JSON,
\* exception, timeout).
C1_OneEntryPerNode ==
    PoolDrained =>
        /\ Len(results) = NODE_COUNT
        /\ \A n \in Nodes : Cardinality(EntriesOf(n)) = 1

\* a drained run in which one node raised, one had no JSON and one
\* returned a loaded result
C1_Witness ==
    /\ PoolDrained
    /\ \E i, j, k \in 1..Len(results) :
          /\ results[i].error = "exception"
          /\ results[j].error = "remote JSON not found"
          /\ results[k].error = "none"

\* ---------------------------------------------------------------------
\* C2: a node whose cycle raised gets the fallback entry (255/255,
\* reboot_count 0, error annotation); every node whose cycle returned gets
\* exactly the entry it returned, also when other nodes raised, and the
\* entries already collected are never changed by a later collection.
C2_Inv ==
    \A n \in Nodes :
        pc[n] = "collected" =>
            \E i \in 1..Len(results) :
                /\ results[i] = (IF Raised(n) THEN ExceptionEntry(n) ELSE ret[n])
                /\ Raised(n) =>
                      /\ results[i].initial_returncode = 255
                      /\ results[i].final_returncode = 255
                      /\ results[i].error = "exception"

C2_ExceptionIsolated ==
    /\ [](C2_Inv)
    /\ [][SubSeq(results', 1, Len(results)) = results]_vars

\* a node raised and was collected, and a node collected after it still
\* got the result it returned
C2_Witness ==
    \E i, j \in 1..Len(results) :
        /\ i < j
        /\ results[i].error = "exception"
        /\ results[j].error = "none"
        /\ results[j] = ret[results[j].node]

C4_Isolation ==
    \A n \in Nodes : passes[n] > 0 => lastOverall[n] = lastOwn[n]

\* ---------------------------------------------------------------------
\* C5: every result the runner persists, intermediate or final, carries
\* reboot_count <= MAX_REBOOT_COUNT (the run starts with a stored
\* reboot_count <= MAX_REBOOT_COUNT or none).
C5_RebootCountBounded ==
    \A n \in Nodes :
        /\ file[n].exists => file[n].reboot_count <= MAX_REBOOT_COUNT
        /\ rcount[n] <= MAX_REBOOT_COUNT

\* the runner has remediated up to the bound
C5_Witness ==
    \E n \in Nodes :
        /\ remeds[n] > 0
        /\ file[n].exists
        /\ file[n].reboot_count = MAX_REBOOT_COUNT

\* ---------------------------------------------------------------------
\* C6: for every node the coordinator issues at most MAX_REBOOT_COUNT
\* reboots and at most MAX_REBOOT_COUNT + 1 remote check invocations.
C6_RebootsAndChecksBounded ==
    \A n \in Nodes :
        /\ reboots[n] <= MAX_REBOOT_COUNT
        /\ checks[n] <= MAX_REBOOT_COUNT + 1

\* a node was rebooted MAX_REBOOT_COUNT times and checked once more
C6_Witness ==
    \E n \in Nodes :
        /\ reboots[n] = MAX_REBOOT_COUNT
        /\ checks[n] = MAX_REBOOT_COUNT + 1

\* ---------------------------------------------------------------------
\* C7: a node that starts fresh, with remediation enabled, and fails every
\* CHECKING pass executes at most MAX_REBOOT_COUNT + 1 passes in the fleet
\* run, and the final result its runner writes has final_returncode = 1 and
\* reboot_count = MAX_REBOOT_COUNT.
C7_FinalizesAfterMaxPlusOne ==
    \A n \in Nodes :
        (cfgEnable /\ fresh[n] /\ allFail[n]) =>
            /\ passes[n] <= MAX_REBOOT_COUNT + 1
            /\ (passes[n] > 0 /\ file[n].exists
                  /\ file[n].initial_returncode = 0) =>
                    /\ file[n].final_returncode = 1
                    /\ file[n].reboot_count = MAX_REBOOT_COUNT

\* ---------------------------------------------------------------------
\* C8: a CHECKING pass that is not the node's first one starts only after
\* the reboot decided by the previous pass was issued and the reachability
\* wait was performed.
C8_RebootBetweenPasses ==
    [][\A n \in Nodes :
          (passes'[n] = passes[n] + 1 /\ passes[n] >= 1)
              => phase[n] = "waited"]_vars

\* ---------------------------------------------------------------------
\* C9: a pass that computes overall = false remediates (reboot_count
\* incremented, intermediate result persisted, flag set) if and only if
\* remediation is enabled by configuration and reboot_count <
\* MAX_REBOOT_COUNT; with remediation disabled no node is ever rebooted.
C9_RemediateIffEnabled ==
    /\ [][\A n \in Nodes :
            (passes'[n] = passes[n] + 1 /\ ~lastOverall'[n]) =>
                ( (/\ remeds'[n] = remeds[n] + 1
                   /\ flag'[n]
                   /\ file'[n].reboot_count = rcount[n] + 1)
                  <=> (cfgEnable /\ rcount[n] < MAX_REBOOT_COUNT) )]_vars
    /\ [](~cfgEnable => \A n \in Nodes : reboots[n] = 0)

C11_LostNodeNotSuccess ==
    \A n \in Nodes :
        Lost(n) =>
            /\ ~Raised(n)
            /\ pc[n] \in {"returned", "collected"} =>
                  ret[n].final_returncode # 0

\* ---------------------------------------------------------------------
\* C12: the runner never writes 255; an entry carries 255 only if it is a
\* fallback (result JSON missing, or exception in the cycle); an entry
\* loaded from the runner's JSON carries exactly the codes the runner
\* wrote; and a result written by a pass whose probes failed carries a code
\* in 1..254.
C12_Inv ==
    /\ \A n \in Nodes :
          /\ file[n].exists =>
                /\ file[n].initial_returncode \in 0..254
                /\ file[n].final_returncode \in 0..254
          /\ (pc[n] \in {"returned", "collected"} /\ ~Raised(n)) =>
                /\ ret[n].error \in {"none", "remote JSON not found"}
                /\ ret[n].error = "none" =>
                      /\ file[n].exists
                      /\ ret[n].initial_returncode = file[n].initial_returncode
                      /\ ret[n].final_returncode = file[n].final_returncode
    /\ \A i \in 1..Len(results) :
          (results[i].initial_returncode = 255
             \/ results[i].final_returncode = 255)
              => results[i].error \in {"remote JSON not found", "exception"}

C12_ReservedCode ==
    /\ [](C12_Inv)
    /\ [][\A n \in Nodes :
            (passes'[n] = passes[n] + 1 /\ ~lastOverall'[n]
               /\ file'[n] # file[n]) =>
                \/ file'[n].initial_returncode \in 1..254
                \/ file'[n].final_returncode \in 1..254]_vars

\* the fleet result holds a loaded entry of a node whose probes failed,
\* with code 1, next to a fallback entry with 255
C12_Witness ==
    \E i, j \in 1..Len(results) :
        /\ results[i].error = "none"
        /\ results[i].final_returncode = 1
        /\ ~lastOverall[results[i].node]
        /\ results[j].final_returncode = 255

\* ---------------------------------------------------------------------
\* C13: in the finalized result the runner writes, initial_returncode = 0
\* only if the last evaluated pass computed overall = true: a node that
\* finalizes with final_returncode = 1 does not carry
\* initial_returncode = 0.
C13_InitialReflectsLastPass ==
    \A n \in Nodes :
        (fresh[n] /\ passes[n] > 0 /\ file[n].exists
           /\ file[n].final_returncode = 1)
            => file[n].initial_returncode # 0

\* ---------------------------------------------------------------------
\* C14: for every combination of the three probe outcomes, overall is the
\* logical AND of the non-skip outcomes, and error_codes is the
\* concatenation, in probe order, of the codes of the non-skip probes only:
\* a skipped probe contributes no code and does not affect overall.
C14_SkipExcluded ==
    passOut.done =>
        LET probes == <<passOut.gpu, passOut.nccl, passOut.multi>>
            NonSkipCodes(i) ==
                IF probes[i].passed = "skip" THEN <<>> ELSE probes[i].codes
        IN  /\ passOut.overall =
                  (\A i \in 1..3 :
                      probes[i].passed # "skip" => probes[i].passed = "pass")
            /\ passOut.error_codes =
                  NonSkipCodes(1) \o NonSkipCodes(2) \o NonSkipCodes(3)

\* a pass in which both NCCL probes skipped with a code of their own and a
\* clean GPU probe alone decided overall, with no code recorded
C14_Witness ==
    /\ passOut.done
    /\ passOut.nccl.passed = "skip" /\ passOut.nccl.codes # <<>>
    /\ passOut.multi.passed = "skip" /\ passOut.multi.codes # <<>>
    /\ passOut.overall
    /\ passOut.error_codes = <<>>

\* ---------------------------------------------------------------------
\* C15: every probe result with passed = false carries at least one error
\* code, and a probe whose collaborator failed (non-zero exit, timeout,
\* execution exception) reports passed = false with an error code, never
\* pass and never skip.
C15_FailureNormalized ==
    passOut.done =>
        /\ \A p \in {passOut.gpu, passOut.nccl, passOut.multi} :
               p.passed = "fail" => p.codes # <<>>
        /\ probeIn.gpu \in GpuCollabFailed =>
               passOut.gpu.passed = "fail" /\ passOut.gpu.codes # <<>>
        /\ probeIn.nccl \in NcclCollabFailed =>
               passOut.nccl.passed = "fail" /\ passOut.nccl.codes # <<>>
        /\ probeIn.multi \in MultiCollabFailed =>
               passOut.multi.passed = "fail" /\ passOut.multi.codes # <<>>

\* the clock reading a log record was written at
WrittenAt(rec) == rec.timestamp.sec

\* the log holds a success record written within the window before t
\* (boundary included)
SuccessWithin(log, t, hours) ==
    \E i \in 1..Len(log) :
        log[i].status = "success" /\ WrittenAt(log[i]) >= t - hours

\* escalation is enabled and the log at time t holds no success record
\* inside the dedup window
NotDeduplicated(log, t) ==
    ENABLE_GHR /\ ~SuccessWithin(log, t, GHR_SKIP_HOURS)

\* ---------------------------------------------------------------------
\* C16: a call of run_ghr_if_needed (a step that is not the passing of
\* time) performs no submission when the log holds a success record written
\* within GHR_SKIP_HOURS of now (boundary included), and proceeds to
\* submission when the newest success record is older or there is none and
\* a failed node is to be reported; hence no two success records of the log
\* are closer together than the window.
C16_Dedup ==
    /\ [][now' = now =>
            /\ SuccessWithin(ghrLog, now, GHR_SKIP_HOURS) =>
                  (attempts' = <<>> /\ ghrLog' = ghrLog)
            /\ (NotDeduplicated(ghrLog, now)
                  /\ ExtractFailed(all_results') # <<>>) =>
                  attempts' # <<>>]_vars
    /\ [](\A i, j \in 1..Len(ghrLog) :
             (i < j /\ ghrLog[i].status = "success"
                    /\ ghrLog[j].status = "success")
                 => WrittenAt(ghrLog[j]) - WrittenAt(ghrLog[i])
                       >= GHR_SKIP_HOURS)

\* ---------------------------------------------------------------------
\* C17: a call that is not deduplicated collects every entry of the result
\* set that carries at least one error code as the runner records it
\* (error_codes), with its node id and codes, in input order, up to
\* GHR_MAX_NODES; a result set with such an entry never ends as "no failure
\* nodes".
RECURSIVE RecordedFailed(_)
RecordedFailed(rs) ==
    IF rs = <<>> THEN <<>>
    ELSE IF Head(rs).error_codes # <<>>
         THEN <<[node |-> Head(rs).node, errors |-> Head(rs).error_codes]>>
                 \o RecordedFailed(Tail(rs))
         ELSE RecordedFailed(Tail(rs))

C17_FailedNodesCollected ==
    [][(now' = now /\ NotDeduplicated(ghrLog, now)) =>
          LET want == RecordedFailed(all_results')
              keep == IF Len(want) > GHR_MAX_NODES
                      THEN GHR_MAX_NODES ELSE Len(want)
          IN  /\ Len(failed_nodes') >= keep
              /\ \A i \in 1..keep : failed_nodes'[i] = want[i]
              /\ want # <<>> => outcome' # "no_failure"]_vars

\* ---------------------------------------------------------------------
\* C18: a call that has a failed node to report and is not deduplicated
\* makes exactly min(k, GHR_MAX_RETRIES) submission attempts, k the first
\* succeeding attempt: at least one and at most GHR_MAX_RETRIES, every one
\* before the last a failure, the last a success unless the bound is
\* reached; and the log gains exactly one record per attempt, with that
\* attempt's status.
C18_OneRecordPerAttempt ==
    [][(now' = now /\ NotDeduplicated(ghrLog, now)
          /\ ExtractFailed(all_results') # <<>>) =>
          LET n == Len(attempts')
          IN  /\ n \in 1..GHR_MAX_RETRIES
              /\ \A i \in 1..(n - 1) : attempts'[i].status = "failure"
              /\ attempts'[n].status = "success" \/ n = GHR_MAX_RETRIES
              /\ Len(ghrLog') = Len(ghrLog) + n
              /\ \A i \in 1..n :
                    ghrLog'[Len(ghrLog) + i].status = attempts'[i].status]_vars

\* ---------------------------------------------------------------------
\* C23: a call that has a failed node to report, is not deduplicated and
\* finds the endpoint failing on every attempt returns normally: it ends at
\* its completion step (line 115) and no exception reaches the caller.
C23_NoExceptionAfterRetries ==
    [][(now' = now /\ endpoint' = "down" /\ NotDeduplicated(ghrLog, now)
          /\ ExtractFailed(all_results') # <<>>) =>
          outcome' = "completed"]_vars

\* a line of one of the three malformed kinds: not JSON, no timestamp, or a
\* timestamp the interpreter's fromisoformat rejects
Malformed(line, v311) ==
    \/ ~line.parses
    \/ line.timestamp = NoTimestamp
    \/ ~fromisoformat(line.timestamp, v311).ok

\* the log without its malformed lines, order kept
RECURSIVE WithoutMalformed(_, _)
WithoutMalformed(log, v311) ==
    IF log = <<>> THEN <<>>
    ELSE IF Malformed(Head(log), v311)
         THEN WithoutMalformed(Tail(log), v311)
         ELSE <<Head(log)>> \o WithoutMalformed(Tail(log), v311)

C25_ResultsEscalated ==
    (/\ mainPc = "completed"
     /\ \E i \in 1..Len(results) : results[i].error_codes # <<>>
     /\ NotDeduplicated(ghrLog, now))
        => attempts # <<>>

\* ---------------------------------------------------------------------
\* C26: when the report renderer fails (an I/O error, or an empty result
\* set) the fleet run is not aborted: main goes on to the archive and to
\* its completion step.
C26_RendererBestEffort ==
    report = "failed" => mainPc \in {"archive", "completed"}

\* ---------------------------------------------------------------------
\* C27: every blocking step of a recovery cycle is bounded by a timeout, so
\* that, remote commands answering or not, every node's cycle ends with a
\* result or with the coordinator's fallback and the pool drains.
C27_CyclesTerminate == <>PoolDrained

\* ceil(timeout / interval) for a positive timeout, 0 otherwise
MaxAttempts(timeout, interval) ==
    IF timeout <= 0 THEN 0
    ELSE (timeout + interval - 1) \div interval

C28_Inv ==
    /\ wRet = "True" => (okAt = tries /\ tries >= 1)
    /\ okAt # 0 => wRet = "True"
    /\ wRet = "False" => (okAt = 0 /\ elapsed >= wTimeout)
    /\ tries <= MaxAttempts(wTimeout, wInterval)

\* ---------------------------------------------------------------------
\* C28: wait_for_ssh returns True at the first connect attempt that
\* succeeds and makes no attempt after it; it returns False only when the
\* elapsed time has reached timeout and every attempt has failed; it makes
\* at most ceil(timeout / interval) attempts (interval >= 1), none when
\* timeout <= 0; and it always returns.
C28_WaitForSsh ==
    /\ [](C28_Inv)
    /\ [][wRet # "running" => tries' = tries]_vars
    /\ <>(wRet # "running")

\* the call connected at the last attempt the deadline allows, after at
\* least one failed attempt
C28_Witness ==
    /\ wRet = "True"
    /\ tries >= 2
    /\ tries = MaxAttempts(wTimeout, wInterval)

\* the coordinator's default for a key
DefaultOf(k, n) ==
    CASE k = "node"               -> n
      [] k = "timestamp"          -> 0
      [] k = "initial_returncode" -> 255
      [] k = "final_returncode"   -> 255
      [] k = "reboot_count"       -> 0

\* ---------------------------------------------------------------------
\* C30: the entry the coordinator returns after loading a saved result
\* carries, for every key the file has, the value that was saved (node,
\* reboot_count and both return codes among them), and the coordinator's
\* default for exactly the keys the file lacks.
C30_RoundTrip ==
    rtPc = "loaded" =>
        /\ DOMAIN reloaded = Keys
        /\ \A k \in Keys :
              reloaded[k] = IF k \in DOMAIN saved THEN saved[k]
                            ELSE DefaultOf(k, rtNode)

\* a complete result of the runner, with final_returncode 1 after
\* MAX_REBOOT_COUNT reboots, came back as it was saved
C30_Witness ==
    /\ rtPc = "loaded"
    /\ DOMAIN saved = Keys
    /\ saved["final_returncode"] = 1
    /\ saved["initial_returncode"] = 0
    /\ saved["reboot_count"] = MAX_REBOOT_COUNT
    /\ \A k \in Keys : reloaded[k] = saved[k]

\* C31: the bandwidth verdict is inclusive.  The single-node probe passes
\* iff the measured bandwidth is at least NCCL_BW_THRESHOLD and the
\* multi-node probe iff the measured busbw is at least
\* NCCL_MULTI_BW_THRESHOLD; a probe that passes on its bandwidth returns no
\* code, one that fails returns exactly its threshold code (NCCL1006,
\* NCCL_MULTI1007).
Verdict(res, measured, threshold, code) ==
    res # NoVerdict =>
        /\ res.passed = "pass" <=> measured >= threshold
        /\ measured >= threshold => res = ProbeResult("pass", <<>>)
        /\ measured < threshold => res = ProbeResult("fail", <<code>>)

C31_InclusiveThreshold ==
    /\ Verdict(bwOut.nccl, bwIn.bandwidth, bwIn.NCCL_BW_THRESHOLD,
               "NCCL1006")
    /\ Verdict(bwOut.multi, bwIn.busbw, bwIn.NCCL_MULTI_BW_THRESHOLD,
               "NCCL_MULTI1007")

\* both probes ran, one on a bandwidth equal to its threshold and one on a
\* bandwidth below it
C31_Witness ==
    /\ bwOut.nccl # NoVerdict
    /\ bwOut.multi # NoVerdict
    /\ bwIn.bandwidth = bwIn.NCCL_BW_THRESHOLD
    /\ bwIn.busbw < bwIn.NCCL_MULTI_BW_THRESHOLD

\* C33: a retry delay lies between two submission attempts and nowhere
\* else, so a call that has a failed node to report, is not deduplicated
\* and finds the endpoint failing on every attempt makes
\* GHR_MAX_RETRIES attempts and sleeps GHR_MAX_RETRIES - 1 times.
C33_DelaysBetweenAttempts ==
    [][(now' = now /\ endpoint' = "down" /\ NotDeduplicated(ghrLog, now)
          /\ ExtractFailed(all_results') # <<>>) =>
          sleeps' = GHR_MAX_RETRIES - 1]_vars

\* C34: the coordinator issues `sudo reboot` for a node only when the
\* node's most recent CHECKING pass computed overall = false; a node whose
\* last pass succeeded is not rebooted, whatever the probes did before and
\* whatever flag was in /tmp when the run started.
C34_RebootOnlyAfterFailedPass ==
    [][\A n \in Nodes :
          reboots'[n] # reboots[n] => (passes[n] > 0 /\ ~lastOverall[n])]_vars

\* C35: the reboot_count of every entry of the result list equals the
\* number of `sudo reboot` commands the coordinator issued for the entry's
\* node during the fleet run.
C35_RebootCountIsReboots ==
    \A i \in 1..Len(results) :
        results[i].reboot_count = reboots[results[i].node]

\* C36: every result the runner persists for a pass that computed
\* overall = false, the intermediate result written before a reboot
\* included, has a final_returncode different from 0.
C36_FailedPassNeverSavedAsSuccess ==
    [][\A n \in Nodes :
          (passes'[n] # passes[n] /\ file'[n] # file[n] /\ ~lastOverall'[n])
              => file'[n].final_returncode # 0]_vars

\* C37: a pass that computed overall = true, whose final result has
\* final_returncode = 0, carries no error code: error_codes is non-empty
\* only when overall is false.
C37_PassedHasNoCodes ==
    (passOut.done /\ passOut.overall) => passOut.error_codes = <<>>

====
